---- MODULE Spec2Model ----
(***************************************************************************)
(* Model of convert_all.py: the batch loop of main, the PLY reader         *)
(* parse_ply and the splat encoder convert_to_splat.                       *)
(*                                                                         *)
(* A PLY file is a sequence of header lines followed by a binary body.     *)
(* The body is kept as the values its bytes encode under the header's      *)
(* property list (one sequence of typed values per complete record), plus  *)
(* the number of bytes of a trailing partial record; byte counts are kept  *)
(* exact.  Field values are small integers, so float32 storage is exact    *)
(* and the centroid and the scaling are exact rationals; the half          *)
(* precision packing rounds them as struct.pack('<e') does.                *)
(***************************************************************************)
EXTENDS Integers, Sequences, FiniteSets, TLC

\* ---------------------------------------------------------------- bounds
MaxVertices == 2
MaxLeadBytes == 1
MaxFloats == 3
MaxTrailBytes == 3

\* ------------------------------------------------------ program constants
NumFiles == 5
Gray == 128
Alpha == 255
Extent == 10
DefaultRatio == <<3, 5>>

\* ----------------------------------------------------------- arithmetic
Abs(x) == IF x < 0 THEN -x ELSE x

Min(a, b) == IF a < b THEN a ELSE b

RECURSIVE Pow2(_)
Pow2(n) == IF n = 0 THEN 1 ELSE 2 * Pow2(n - 1)

RECURSIVE SumSeq(_)
SumSeq(s) == IF s = <<>> THEN 0 ELSE Head(s) + SumSeq(Tail(s))

RECURSIVE MaxSeq(_)
MaxSeq(s) == IF Len(s) = 1 THEN s[1]
             ELSE LET m == MaxSeq(Tail(s)) IN IF s[1] > m THEN s[1] ELSE m

RECURSIVE Flatten(_)
Flatten(ss) == IF ss = <<>> THEN <<>> ELSE Head(ss) \o Flatten(Tail(ss))

\* ------------------------------------------------------------ PLY files
Line(t, n, k) == [t |-> t, n |-> n, k |-> k]

OtherLine == Line("other", 0, "-")
EndHeaderLine == Line("end_header", 0, "-")
VertexLine(n) == Line("element vertex", n, "-")
PropertyLine(k) == Line("property", 0, k)
\* readline() at end of file returns b''
EOFLine == Line("", 0, "-")

Repeat(x, n) == [i \in 1..n |-> x]

\* struct.calcsize of one format character under '<' (no padding)
Width(k) == CASE k = "f" -> 4 [] k = "d" -> 8 [] k = "B" -> 1

PyType(k) == IF k = "B" THEN "int" ELSE "float"

Patterns == {"same", "spread"}

FieldValue(pat, i, j) == IF pat = "same" THEN j ELSE i * j

Schemas ==
    { Repeat("B", a) \o Repeat(fk, m) \o Repeat("B", b) :
        a \in 0..MaxLeadBytes, fk \in {"f", "d"}, m \in 0..MaxFloats,
        b \in 0..MaxTrailBytes }

RecordOf(schema, pat, i) ==
    [j \in 1..Len(schema) |-> [ty |-> PyType(schema[j]), v |-> FieldValue(pat, i, j)]]

Stride(schema) == SumSeq([j \in 1..Len(schema) |-> Width(schema[j])])

MkHeader(hasVertex, vc, schema, hasEnd) ==
    <<OtherLine>>
    \o (IF hasVertex THEN <<VertexLine(vc)>> ELSE <<>>)
    \o [j \in 1..Len(schema) |-> PropertyLine(schema[j])]
    \o (IF hasEnd THEN <<EndHeaderLine>> ELSE <<>>)

\* header complete
DeclaredHeaders ==
    { MkHeader(TRUE, vc, s, TRUE) : vc \in 0..MaxVertices, s \in Schemas }

\* header ends with end_header but has no "element vertex" line
NoVertexHeaders == { MkHeader(FALSE, 0, s, TRUE) : s \in Schemas }

\* no line of the file contains end_header
NoEndHeaders ==
    { MkHeader(hv, 1, s, FALSE) : hv \in BOOLEAN, s \in { t \in Schemas : Len(t) <= 1 } }

Headers == DeclaredHeaders \cup NoVertexHeaders \cup NoEndHeaders \cup {<<>>}

\* the property kinds and the vertex count a header declares
Declared(hdr) ==
    LET ps == SelectSeq(hdr, LAMBDA l : l.t = "property")
    IN  [j \in 1..Len(ps) |-> ps[j].k]

DeclaredCount(hdr) ==
    LET vs == SelectSeq(hdr, LAMBDA l : l.t = "element vertex")
    IN  IF vs = <<>> THEN -1 ELSE vs[1].n

Tails(schema) == IF Stride(schema) = 0 THEN {0} ELSE 0..Min(1, Stride(schema) - 1)

\* the bodies that follow a header: k complete records, k at most the declared
\* count (at most 1 when none is declared), and tl bytes of a further record
Bodies(hdr) ==
    LET s  == Declared(hdr)
        vc == IF DeclaredCount(hdr) < 0 THEN 1 ELSE DeclaredCount(hdr)
    IN  { [recs |-> [i \in 1..k |-> RecordOf(s, pat, i)], tail |-> tl] :
            k \in 0..vc, tl \in Tails(s), pat \in Patterns }

MkFile(hdr, body) == [hdr |-> hdr, recs |-> body.recs, tail |-> body.tail]

NoBody == [recs |-> <<>>, tail |-> 0]

NoFile == MkFile(<<>>, NoBody)

Ratios == {DefaultRatio, <<9, 10>>, <<1, 1>>}

\* ------------------------------------------------------------ parse_ply
\* b'end_header' in line
ContainsEndHeader(l) == l.t = "end_header"

RECURSIVE vertex_count(_)
vertex_count(hdr) ==
    IF hdr = <<>> THEN 0
    ELSE IF Head(hdr).t = "element vertex" THEN Head(hdr).n
    ELSE vertex_count(Tail(hdr))

IsProperty(l) == l.t = "property" /\ l.k \in {"f", "B", "d"}

props(hdr) == LET ps == SelectSeq(hdr, IsProperty)
              IN  [j \in 1..Len(ps) |-> ps[j].k]

struct_size(fmt) == SumSeq([j \in 1..Len(fmt) |-> Width(fmt[j])])

BodyLen(f, fmt) == Len(f.recs) * struct_size(fmt) + f.tail

\* struct.unpack of the i-th chunk of struct_size bytes
Unpack(f, fmt, i) == IF fmt = <<>> THEN <<>> ELSE f.recs[i]

IsUcharByRange(v) == 0 <= v.v /\ v.v <= 255

\* isinstance(v, int) and 0 <= v <= 255
IsUchar(v) == v.ty = "int" /\ 0 <= v.v /\ v.v <= 255

uchars(values) == SelectSeq(values, IsUchar)

Color(values) ==
    LET u == uchars(values)
    IN  IF Len(u) >= 3 THEN <<u[1].v, u[2].v, u[3].v>> ELSE <<Gray, Gray, Gray>>

\* one row of the returned array: (x, y, z, r, g, b)
Vertex(values) == <<values[1].v, values[2].v, values[3].v>> \o Color(values)

\* len(f.read(size)) with avail bytes left in the file
Read(avail, size) == Min(avail, size)

IsShortOrEqual(got, size) == got <= size

\* if len(data) < struct_size: break
IsShort(got, size) == got < size

\* the loop "for i in range(vertex_count)" from iteration i on, acc the list so far
RECURSIVE DecodeFrom(_, _, _, _, _)
DecodeFrom(f, fmt, vc, i, acc) ==
    IF i > vc THEN [exc |-> "none", vertices |-> acc]
    ELSE IF IsShort(Read(BodyLen(f, fmt) - (i - 1) * struct_size(fmt),
                         struct_size(fmt)),
                    struct_size(fmt))
         THEN [exc |-> "none", vertices |-> acc]
    ELSE IF Len(fmt) < 3 THEN [exc |-> "IndexError", vertices |-> <<>>]
    ELSE DecodeFrom(f, fmt, vc, i + 1, Append(acc, Vertex(Unpack(f, fmt, i))))

\* parse_ply after the header loop: its return value or the exception it raises
parse_ply(f, hdr) == DecodeFrom(f, props(hdr), vertex_count(hdr), 1, <<>>)

\* ----------------------------------------------------- convert_to_splat
\* int(len(vertices) * sample_ratio), the ratio a fraction <<num, den>>
target_points(n, ratio) == (n * ratio[1]) \div ratio[2]

\* the results np.random.choice(n, k, replace=False) can give
Choices(n, k) ==
    { c \in [1..k -> 1..n] : \A i, j \in 1..k : i # j => c[i] # c[j] }

\* struct.pack('<I', n)
pack_uint32(n) ==
    <<n % 256, (n \div 256) % 256, (n \div 65536) % 256, (n \div 16777216) % 256>>

\* whether a / den >= 2^e, for a >= 0 and den > 0
GeqPow2(a, den, e) == IF e >= 0 THEN a >= den * Pow2(e) ELSE a * Pow2(-e) >= den

\* the binary exponent of a / den, not below that of the half-precision subnormals
RECURSIVE Exponent(_, _, _)
Exponent(a, den, e) ==
    IF e = -14 \/ GeqPow2(a, den, e) THEN e ELSE Exponent(a, den, e - 1)

\* n / d rounded to the nearest integer, ties to even
RoundHalfEven(n, d) ==
    LET q == n \div d
        r == n % d
    IN  IF 2 * r > d \/ (2 * r = d /\ q % 2 = 1) THEN q + 1 ELSE q

\* the 15 magnitude bits of the half-precision float nearest to a / den
HalfBits(a, den) ==
    IF a = 0 THEN 0
    ELSE LET e == Exponent(a, den, 16)
         IN  (e + 14) * 1024
             + (IF e <= 10 THEN RoundHalfEven(a * Pow2(10 - e), den)
                ELSE RoundHalfEven(a, den * Pow2(e - 10)))

\* struct.pack('<e', num / den): two bytes, low byte first
float32_to_float16_bytes(num, den) ==
    LET bits == HalfBits(Abs(num), den) + (IF num < 0 THEN 32768 ELSE 0)
    IN  <<bits % 256, bits \div 256>>

\* n * np.mean(positions, axis=0): the column sums
ColumnSums(vs) == [a \in 1..3 |-> SumSeq([i \in 1..Len(vs) |-> vs[i][a]])]

\* n * (positions - center), n = len(vertices)
Centered(vs) ==
    LET s == ColumnSums(vs)
    IN  [i \in 1..Len(vs) |-> [a \in 1..3 |-> Len(vs) * vs[i][a] - s[a]]]

max_extent_x_only(cs) == MaxSeq([i \in 1..Len(cs) |-> Abs(cs[i][1])])

\* n * np.max(np.abs(positions))
max_extent(cs) == MaxSeq(Flatten([i \in 1..Len(cs) |-> [a \in 1..3 |-> Abs(cs[i][a])]]))

\* the normalized positions as fractions <<num, den>>
Positions(vs) ==
    LET cs == Centered(vs)
        m  == max_extent(cs)
    IN  [i \in 1..Len(vs) |->
           [a \in 1..3 |-> IF m > 0 THEN <<cs[i][a] * Extent, m>>
                            ELSE <<cs[i][a], Len(vs)>>]]

PackColorNoAlpha(r, g, b) == <<r, g, b>>

\* struct.pack('BBBB', r, g, b, 255)
PackColor(r, g, b) == <<r, g, b, Alpha>>

\* the bytes written for point i
PointBytes(vs, ps, i) ==
    float32_to_float16_bytes(ps[i][1][1], ps[i][1][2])
    \o float32_to_float16_bytes(ps[i][2][1], ps[i][2][2])
    \o float32_to_float16_bytes(ps[i][3][1], ps[i][3][2])
    \o PackColor(vs[i][4], vs[i][5], vs[i][6])

SplatBytes(vs) ==
    LET ps == Positions(vs)
    IN  pack_uint32(Len(vs)) \o Flatten([i \in 1..Len(vs) |-> PointBytes(vs, ps, i)])

\* the array after "vertices = vertices[indices]", or the one passed in
Subsample(vs, ratio, indices) ==
    IF target_points(Len(vs), ratio) < Len(vs)
    THEN [i \in 1..Len(indices) |-> vs[indices[i]]]
    ELSE vs

\* convert_to_splat(vs, path, ratio) when np.random.choice returns indices:
\* the file written, or the exception raised
convert_to_splat(vs, ratio, indices) ==
    LET sel == Subsample(vs, ratio, indices)
    IN  IF Len(vs) = 0
        THEN \* np.array([]) has one dimension: vertices[:, :3] raises
             [exc |-> "IndexError", sel |-> sel, out |-> <<>>]
        ELSE IF Len(sel) = 0
        THEN \* np.max of an empty array raises
             [exc |-> "ValueError", sel |-> sel, out |-> <<>>]
        ELSE [exc |-> "none", sel |-> sel, out |-> SplatBytes(sel)]

\* ----------------------------------------------------------------- main
VARIABLES
    idx,            \* position of main's loop in the table "files"
    pc,             \* where main is: "loop", "header", "body", "convert", "preview", "done"
    file,           \* the PLY file open in parse_ply
    header,         \* parse_ply's header: the lines accumulated so far
    line,           \* parse_ply's line: what the last readline() returned
    vertices,       \* main's vertices: what parse_ply returned
    sample_ratio,   \* convert_to_splat's sample_ratio
    sampled,        \* convert_to_splat's vertices after subsampling
    splat,          \* the bytes of the splat file of this entry
    res,            \* how far this entry's try block got
    exc,            \* the exception the try block caught
    copied          \* whether the last entry's preview was copied

vars == <<idx, pc, file, header, line, vertices, sample_ratio, sampled, splat,
          res, exc, copied>>

NoLine == Line("unread", 0, "-")

Init ==
    /\ idx = 1
    /\ pc = "loop"
    /\ file = NoFile
    /\ header = <<>>
    /\ line = NoLine
    /\ vertices = <<>>
    /\ sample_ratio = DefaultRatio
    /\ sampled = <<>>
    /\ splat = <<>>
    /\ res = "none"
    /\ exc = "none"
    /\ copied = FALSE

\* os.path.exists(ply_path) holds: parse_ply opens the file
open_ply ==
    /\ pc = "loop"
    /\ idx <= NumFiles
    /\ \E h \in Headers : file' = MkFile(h, NoBody)
    /\ pc' = "header"
    /\ res' = "opened"
    /\ UNCHANGED <<idx, header, line, vertices, sample_ratio, sampled, splat, exc,
                   copied>>

\* os.path.exists(ply_path) fails: "PLY file not found"
ply_not_found ==
    /\ pc = "loop"
    /\ idx <= NumFiles
    /\ pc' = "preview"
    /\ res' = "missing"
    /\ UNCHANGED <<idx, file, header, line, vertices, sample_ratio, sampled, splat,
                   exc, copied>>

\* one turn of parse_ply's "while True" loop
read_header_line ==
    /\ pc = "header"
    /\ LET l == IF Len(header) < Len(file.hdr) THEN file.hdr[Len(header) + 1]
                 ELSE EOFLine
       IN  /\ line' = l
           /\ header' = IF l = EOFLine THEN header ELSE Append(header, l)
           /\ pc' = IF ContainsEndHeader(l) THEN "body" ELSE "header"
    /\ UNCHANGED <<idx, file, vertices, sample_ratio, sampled, splat, res, exc,
                   copied>>

\* the rest of parse_ply, and main's except clause when it raises.  The bytes
\* after the header are drawn here, where parse_ply first reads them.
parse_body ==
    /\ pc = "body"
    /\ \E body \in Bodies(file.hdr) :
         \E r \in {parse_ply(MkFile(file.hdr, body), header)} :
             /\ file' = MkFile(file.hdr, body)
             /\ vertices' = r.vertices
             /\ exc' = r.exc
             /\ res' = IF r.exc = "none" THEN "parsed" ELSE "parse_error"
             /\ pc' = IF r.exc = "none" THEN "convert" ELSE "preview"
    /\ UNCHANGED <<idx, header, line, sample_ratio, sampled, splat, copied>>

\* convert_to_splat, and main's except clause when it raises.  main passes no
\* ratio (the default); the other ratios are those of a caller that passes one.
call_convert_to_splat ==
    /\ pc = "convert"
    /\ \E ratio \in Ratios :
         LET n == Len(vertices)
             t == target_points(n, ratio)
         IN  \E indices \in Choices(n, IF t < n THEN t ELSE 0) :
               \E r \in {convert_to_splat(vertices, ratio, indices)} :
                   /\ sample_ratio' = ratio
                   /\ sampled' = r.sel
                   /\ splat' = r.out
                   /\ exc' = r.exc
                   /\ res' = IF r.exc = "none" THEN "converted" ELSE "convert_error"
    /\ pc' = "preview"
    /\ UNCHANGED <<idx, file, header, line, vertices, copied>>

\* the preview copy, then the loop moves to the next entry
copy_preview ==
    /\ pc = "preview"
    /\ \E exists \in BOOLEAN : copied' = exists
    /\ idx' = idx + 1
    /\ pc' = "loop"
    /\ file' = NoFile
    /\ header' = <<>>
    /\ line' = NoLine
    /\ vertices' = <<>>
    /\ sample_ratio' = DefaultRatio
    /\ sampled' = <<>>
    /\ splat' = <<>>
    /\ res' = "none"
    /\ exc' = "none"

\* the table is exhausted: "Done!"
main_done ==
    /\ pc = "loop"
    /\ idx > NumFiles
    /\ pc' = "done"
    /\ UNCHANGED <<idx, file, header, line, vertices, sample_ratio, sampled, splat,
                   res, exc, copied>>

Next ==
    \/ open_ply
    \/ ply_not_found
    \/ read_header_line
    \/ parse_body
    \/ call_convert_to_splat
    \/ copy_preview
    \/ main_done

Spec == Init /\ [][Next]_vars

\* main is one sequential thread: whenever it can take a step it does
FairSpec == Spec /\ WF_vars(Next)

\* ---------------------------------------------------------- properties
HasEndHeader(hdr) == \E i \in 1..Len(hdr) : hdr[i].t = "end_header"

HasVertexLine(hdr) == DeclaredCount(hdr) >= 0

\* the values of the fields of rec whose declared kind is in kinds, in field order
RECURSIVE FieldsOfKind(_, _, _)
FieldsOfKind(schema, rec, kinds) ==
    IF schema = <<>> THEN <<>>
    ELSE (IF Head(schema) \in kinds THEN <<Head(rec).v>> ELSE <<>>)
         \o FieldsOfKind(Tail(schema), Tail(rec), kinds)

CountOfKind(schema, kinds) == Cardinality({j \in 1..Len(schema) : schema[j] \in kinds})

\* the number of complete records in the body of f
CompleteRecords(f) == (Len(f.recs) * Stride(Declared(f.hdr)) + f.tail)
                          \div Stride(Declared(f.hdr))

\* the unsigned 32-bit little-endian integer at the start of a splat file
PointCount(bytes) ==
    bytes[1] + 256 * bytes[2] + 65536 * bytes[3] + 16777216 * bytes[4]

\* floor(n * r) for the fraction r
FloorOfProduct(n, r) ==
    CHOOSE t \in 0..(n * r[1]) : t * r[2] <= n * r[1] /\ (t + 1) * r[2] > n * r[1]

ExpectedCount(n, r) == IF FloorOfProduct(n, r) < n THEN FloorOfProduct(n, r) ELSE n

\* the magnitude of the half-precision float in two bytes, in units of 2^-24
HalfMagnitude(lo, hi) ==
    LET bits == (lo + 256 * hi) % 32768
    IN  IF (bits \div 1024) = 0 THEN bits % 1024
        ELSE (1024 + (bits % 1024)) * Pow2((bits \div 1024) - 1)

\* the magnitudes of all coordinates written to a splat file
Magnitudes(bytes) ==
    { HalfMagnitude(bytes[4 + 10 * (i - 1) + 2 * a - 1], bytes[4 + 10 * (i - 1) + 2 * a]) :
        i \in 1..PointCount(bytes), a \in 1..3 }

TenUnits == Extent * Pow2(24)

AllSamePosition(vs) ==
    \A i \in 1..Len(vs) : \A a \in 1..3 : vs[i][a] = vs[1][a]

ConvertEnded == res \in {"converted", "convert_error"}

ParseEnded == res \in {"parsed", "parse_error"}

\* C1: for N input records and ratio r, convert_to_splat completes and writes
\* floor(N * r) points when floor(N * r) < N, and N points otherwise.
C1_SubsampleCount ==
    ConvertEnded =>
        /\ res = "converted"
        /\ PointCount(splat) = ExpectedCount(Len(vertices), sample_ratio)

\* C2: once readline has reached the end of a file with no end_header line,
\* parse_ply has failed with an error; it is not still reading the header.
C2_MissingEndHeaderIsFatal ==
    line = EOFLine => res = "parse_error"

\* C3: a header that ends with end_header but has no "element vertex" line
\* makes parse_ply fail; it does not return a record sequence.
C3_MissingVertexLineIsFatal ==
    (ParseEnded /\ HasEndHeader(file.hdr) /\ ~HasVertexLine(file.hdr))
        => res = "parse_error"

\* the body of the file holds k < N complete records, N the declared count
Truncated(f) ==
    /\ HasEndHeader(f.hdr)
    /\ HasVertexLine(f.hdr)
    /\ Stride(Declared(f.hdr)) > 0
    /\ CompleteRecords(f) < DeclaredCount(f.hdr)

FirstRecordsReturned ==
    /\ res = "parsed"
    /\ Len(vertices) = CompleteRecords(file)
    /\ \A i \in 1..Len(vertices) : vertices[i] = Vertex(file.recs[i])

\* C4 as stated: when the body holds only k < N complete records, parse_ply
\* returns exactly the first k records in file order and raises no error.
C4_TruncationAsStated ==
    (ParseEnded /\ Truncated(file)) => FirstRecordsReturned

\* C4 as amended: when the body holds only k < N complete records, and k = 0 or
\* the header declares at least three fields, parse_ply returns exactly the
\* first k records in file order and raises no error.
C4_Truncation ==
    (/\ ParseEnded
     /\ Truncated(file)
     /\ (CompleteRecords(file) = 0 \/ Len(Declared(file.hdr)) >= 3))
        => FirstRecordsReturned

C4_Witness ==
    /\ res = "parsed"
    /\ Truncated(file)
    /\ file.tail > 0
    /\ Len(vertices) >= 1
    /\ Len(vertices) = CompleteRecords(file)

\* C5: with at least three float-kind fields declared, the position of every
\* decoded record is its first three float-kind values in field order.
C5_PositionIsFirstThreeFloats ==
    (res = "parsed" /\ CountOfKind(Declared(file.hdr), {"f", "d"}) >= 3) =>
        \A i \in 1..Len(vertices) :
            SubSeq(vertices[i], 1, 3)
                = SubSeq(FieldsOfKind(Declared(file.hdr), file.recs[i], {"f", "d"}), 1, 3)

\* C6: the color of every decoded record is its first three byte-kind values in
\* field order when the header declares at least three byte-kind fields, and
\* (128, 128, 128) otherwise; float and double values never count.
C6_ColorByDeclaredKind ==
    res = "parsed" =>
        \A i \in 1..Len(vertices) :
            SubSeq(vertices[i], 4, 6)
                = IF CountOfKind(Declared(file.hdr), {"B"}) >= 3
                  THEN SubSeq(FieldsOfKind(Declared(file.hdr), file.recs[i], {"B"}), 1, 3)
                  ELSE <<Gray, Gray, Gray>>

C6_Witness ==
    /\ res = "parsed"
    /\ Len(vertices) >= 1
    /\ CountOfKind(Declared(file.hdr), {"f", "d"}) >= 3
    /\ CountOfKind(Declared(file.hdr), {"B"}) >= 3
    /\ SubSeq(vertices[1], 4, 6) # <<Gray, Gray, Gray>>

\* a header with its vertex count and at least three fields, and a body that
\* holds every declared record
WellFormed(f) ==
    /\ HasEndHeader(f.hdr)
    /\ HasVertexLine(f.hdr)
    /\ Len(Declared(f.hdr)) >= 3
    /\ Len(f.recs) = DeclaredCount(f.hdr)

\* C7: converting a well-formed, complete PLY with ratio 1.0 writes a point
\* count equal to the header's vertex count, whatever that count is.
C7_RoundTripCount ==
    (ConvertEnded /\ WellFormed(file) /\ sample_ratio = <<1, 1>>) =>
        /\ res = "converted"
        /\ PointCount(splat) = DeclaredCount(file.hdr)

\* C8: the file convert_to_splat wrote is the 4-byte point count followed by
\* that many 10-byte records, each ending in r, g, b and an alpha byte of 255.
C8_SplatLayout ==
    res = "converted" =>
        /\ Len(splat) = 4 + 10 * PointCount(splat)
        /\ PointCount(splat) = Len(sampled)
        /\ \A i \in 1..PointCount(splat) :
              SubSeq(splat, 4 + 10 * (i - 1) + 7, 4 + 10 * i)
                  = <<sampled[i][4], sampled[i][5], sampled[i][6], 255>>

C8_Witness ==
    /\ res = "converted"
    /\ PointCount(splat) >= 2
    /\ sampled[1][4] # Gray

\* C9: when the selected records are not all at one position every written
\* coordinate lies in [-10, 10] and one of them has absolute value 10; when
\* max_extent is 0 every written coordinate is 0.
C9_NormalizedRange ==
    res = "converted" =>
        /\ ~AllSamePosition(sampled) =>
              /\ \A m \in Magnitudes(splat) : m <= TenUnits
              /\ TenUnits \in Magnitudes(splat)
        /\ max_extent(Centered(sampled)) = 0 => Magnitudes(splat) = {0}

C9_Witness ==
    /\ res = "converted"
    /\ ~AllSamePosition(sampled)
    /\ \E m \in Magnitudes(splat) : 0 < m /\ m < TenUnits

\* C10: whatever happens to one file, main's loop goes on to the later entries
\* and the run reaches the end of the table.
C10_BatchReachesEnd == <>(pc = "done")

====
